---------------------------- MODULE Spec2Model ----------------------------
(***************************************************************************)
(* Model of make_bed_callibration.py: build(cfg), the generator of the     *)
(* Z-offset calibration G-code for the Anycubic Kobra S1.                  *)
(*                                                                         *)
(* Numbers.  Python floats are modelled as exact rationals <<n, d>> in     *)
(* lowest terms with d > 0; Python ints stay integers.  round(v, 3) and    *)
(* the "%.3f"/"%.2f" formats round to the nearest multiple of 10^-3 or     *)
(* 10^-2, ties to even, as they do on a value that is exactly              *)
(* representable; the binary rounding error of doubles is not modelled.    *)
(* A formatted number is the integer count of its last printed digit       *)
(* (f3 of 77.5 is 77500, the text "77.500").                               *)
(*                                                                         *)
(* Lines.  A line of output is a record: kind is its command word (or      *)
(* "comment", "blank"), the other fields are its words.  The output file   *)
(* is the sequence of lines that "\n".join(g) writes.                      *)
(***************************************************************************)
EXTENDS Integers, Sequences, FiniteSets, TLC

(* ------------------------------ bounds -------------------------------- *)
\* Largest number of squares in X and in Y that a configuration asks for.
MaxCols == 3
MaxRows == 2
\* Number of calls of build() that the caller makes, one after the other,
\* with the same configuration.
MaxCalls == 2

(* --------------------------- exact arithmetic -------------------------- *)
Abs(n) == IF n < 0 THEN 0 - n ELSE n

RECURSIVE GCD(_, _)
GCD(a, b) == IF b = 0 THEN a ELSE GCD(b, a % b)

\* The rational n/d (d # 0) in lowest terms with a positive denominator.
Rat(n, d) ==
  LET k == GCD(Abs(n), Abs(d))
      s == IF d < 0 THEN 0 - 1 ELSE 1
  IN  <<(s * n) \div k, (s * d) \div k>>

FromInt(i) == <<i, 1>>
RAdd(p, q) == Rat(p[1] * q[2] + q[1] * p[2], p[2] * q[2])
RSub(p, q) == Rat(p[1] * q[2] - q[1] * p[2], p[2] * q[2])
RMul(p, q) == Rat(p[1] * q[1], p[2] * q[2])
\* p / q for q # 0; the callers raise ZeroDivisionError themselves.
RDiv(p, q) == Rat(p[1] * q[2], p[2] * q[1])
RLe(p, q)  == p[1] * q[2] <= q[1] * p[2]
RLt(p, q)  == p[1] * q[2] < q[1] * p[2]
IsZero(p)  == p[1] = 0

\* int(v): truncation toward zero.
Trunc(p) == IF p[1] >= 0 THEN p[1] \div p[2] ELSE 0 - ((0 - p[1]) \div p[2])

\* The integer nearest to p, ties to the even one.
RoundHalfEven(p) ==
  LET fl  == p[1] \div p[2]
      rem == 2 * (p[1] - fl * p[2])
  IN  IF rem < p[2] THEN fl
      ELSE IF rem > p[2] THEN fl + 1
      ELSE IF fl % 2 = 0 THEN fl ELSE fl + 1

\* round(v, 3): the float nearest v with three decimals.
round3(p) == Rat(RoundHalfEven(RMul(p, FromInt(1000))), 1000)

\* f"{val:.3f}" (also "+.3f"): the count of thousandths printed.
f3(val) == RoundHalfEven(RMul(val, FromInt(1000)))

\* f"{val:.2f}" (also "+.2f"): the count of hundredths printed.
f2(val) == RoundHalfEven(RMul(val, FromInt(100)))

\* math.hypot(dx, dy) on the axis-aligned moves build() makes.
hypot(dx, dy) == IF IsZero(dy) THEN Rat(Abs(dx[1]), dx[2]) ELSE Rat(Abs(dy[1]), dy[2])

\* math.pi to seven significant digits, as a rational.
Pi == <<355, 113>>

\* Filament length (mm) for a straight move of dist_mm; dia defaults to 1.75.
filament_len(dist_mm, layer_h, line_w, mult) ==
  LET dia  == <<7, 4>>
      half == RDiv(dia, FromInt(2))
  IN  RDiv(RMul(RMul(RMul(dist_mm, line_w), layer_h), mult),
           RMul(Pi, RMul(half, half)))


(* ---------------------------- configurations --------------------------- *)
\* Grid dimensions (--x, --y): any integer parses, so zero and negative
\* values are inputs too.
Cols == (0 - 1)..MaxCols
Rows == (0 - 1)..MaxRows
\* Lowest and highest Z offset (--min, --max), in mm.
ZMins == {<<0 - 3, 10>>, <<1, 20>>}
ZMaxs == {<<0, 1>>, <<0 - 2, 5>>}
\* Layer height and square height in mm: 1.0/0.2 gives 5 layers, 1.0/0.4
\* gives 2, 0.3/0.2 gives 1, 0.3/0.4 none; 0 divides by zero and a negative
\* height gives a negative layer count.
LayerHeights == {<<1, 5>>, <<2, 5>>, <<0, 1>>, <<0 - 1, 5>>}
SquareHeights == {<<1, 1>>, <<3, 10>>}
\* Gap between squares in mm.
Gaps == {0, 5}
\* Readings of datetime.now(), in seconds from some origin.
Clocks == {1, 2}

\* The cfg dict that the command line hands to build().
Configs ==
  { [x |-> cx, y |-> cy, z_min |-> zlo, z_max |-> zhi,
     bed |-> 60, nozzle |-> 215,
     size |-> 20, gap |-> gp, square_height |-> sh,
     layer_height |-> lh, line_width |-> <<2, 5>>, mult |-> <<1, 1>>,
     print |-> 20, travel |-> 150,
     bed_x |-> 250, bed_y |-> 250] :
      cx \in Cols, cy \in Rows, zlo \in ZMins, zhi \in ZMaxs,
      gp \in Gaps, sh \in SquareHeights, lh \in LayerHeights }

(* -------------------------------- state -------------------------------- *)
VARIABLES
  cfg,      \* the configuration every call is made with
  pc,       \* position in build(): the next block of statements to run
  err,      \* the exception that ended the call, "none" otherwise
  calls,    \* number of calls of build() started
  now,      \* local now: the clock reading, 0 before the first call
  layers,   \* local layers
  g,        \* local g: the lines built so far
  grid_w, grid_h, start_x, start_y,
  total, z_vals,
  idx, row, col, ly, z_off, ox, oy,
  file,     \* content of z_offset_calibration.gcode, NoFile when absent
  written,  \* number of writes of the file made by the current call
  outputs   \* the content written by each call that returned

vars == <<cfg, pc, err, calls, now, layers, g, grid_w, grid_h, start_x,
          start_y, total, z_vals, idx, row, col, ly, z_off, ox, oy,
          file, written, outputs>>

NoFile == <<"absent">>
Zero == <<0, 1>>

\* Locals of build() that stay as they are.
gridVars == <<grid_w, grid_h, start_x, start_y>>
loopVars == <<idx, row, col, ly, z_off, ox, oy>>
diskVars == <<file, written, outputs>>

(* -------------------------------- lines -------------------------------- *)
Comment(text) == [kind |-> "comment", text |-> text]
Cmd(word) == [kind |-> word]

\* 1) Cura-style metadata header.
preheader(c) ==
  << Comment("FLAVOR:Marlin"),
     Comment("TIME:1"),
     Comment("Filament used: 0.01m"),
     [kind |-> "comment", text |-> "Layer height:", val |-> f2(c.layer_height)],
     Comment("MINX:0 ;MINY:0 ;MINZ:0"),
     [kind |-> "comment", text |-> "MAXX: ;MAXY: ;MAXZ:",
      maxx |-> c.bed_x, maxy |-> c.bed_y, maxz |-> c.square_height] >>

\* 2) Anycubic's header / executable markers.
header(c, t, nlayers) ==
  << Comment(" HEADER_BLOCK_START"),
     [kind |-> "comment", text |-> " generated", val |-> t],
     [kind |-> "comment", text |-> " total layer number:", val |-> nlayers],
     Comment(" filament_diameter: 1.75"),
     [kind |-> "comment", text |-> " max_z_height:", val |-> f2(c.square_height)],
     Comment(" HEADER_BLOCK_END"),
     Cmd("blank"),
     Comment(" EXECUTABLE_BLOCK_START"),
     Comment("TYPE:Custom"),
     [kind |-> "G9111", bedTemp |-> c.bed, extruderTemp |-> c.nozzle],
     Cmd("M117"),
     Cmd("G90"), Cmd("G21"), Cmd("M83"),
     Cmd("T0") >>

\* Faulty variant of warmup: homing and priming before the heaters are waited for.
warmup_cold(c) ==
  << Cmd("G28"),
     [kind |-> "G1", Z |-> 5000, F |-> 3000],
     [kind |-> "G1", X |-> 5000, Y |-> 5000, F |-> 6000],
     [kind |-> "G1", Z |-> 300, F |-> 600],
     [kind |-> "G1", E |-> 2000, F |-> 120],
     [kind |-> "G92", E |-> 0],
     [kind |-> "M190", S |-> c.bed],
     [kind |-> "M109", S |-> c.nozzle] >>

\* 3) Warm-up & prime.
warmup(c) ==
  << [kind |-> "M190", S |-> c.bed],
     [kind |-> "M109", S |-> c.nozzle],
     Cmd("G28"),
     [kind |-> "G1", Z |-> 5000, F |-> 3000],
     [kind |-> "G1", X |-> 5000, Y |-> 5000, F |-> 6000],
     [kind |-> "G1", Z |-> 300, F |-> 600],
     [kind |-> "G1", E |-> 2000, F |-> 120],
     [kind |-> "G92", E |-> 0] >>

\* 6) End-gcode.
endgcode ==
  << [kind |-> "G1", Z |-> 20000, F |-> 900],
     [kind |-> "G92", E |-> 0],
     [kind |-> "G1", E |-> 0 - 2000, F |-> 3000],
     [kind |-> "G1", F |-> 12000],
     [kind |-> "G1", X |-> 44000],
     [kind |-> "G1", Y |-> 270000],
     [kind |-> "M140", S |-> 0], [kind |-> "M104", S |-> 0],
     [kind |-> "M106", P |-> 1, S |-> 0], [kind |-> "M106", P |-> 2, S |-> 0],
     [kind |-> "M106", P |-> 3, S |-> 0],
     Cmd("M84"),
     Comment(" EXECUTABLE_BLOCK_END") >>

(* ------------------------------- build() ------------------------------- *)
Init ==
  /\ cfg \in Configs
  /\ pc = "idle"
  /\ err = "none"
  /\ calls = 0
  /\ now = 0
  /\ layers = 0
  /\ g = <<>>
  /\ grid_w = 0 /\ grid_h = 0 /\ start_x = Zero /\ start_y = Zero
  /\ total = 0 /\ z_vals = <<>>
  /\ idx = 0 /\ row = 0 /\ col = 0 /\ ly = 0
  /\ z_off = Zero /\ ox = Zero /\ oy = Zero
  /\ file = NoFile
  /\ written = 0
  /\ outputs = <<>>

\* An exception leaves build(): nothing after the raising statement runs.
Raise(e) == pc' = "failed" /\ err' = e

\* layers = int(square_height / layer_height)
layer_count(c) == Trunc(RDiv(c.square_height, c.layer_height))

\* build(cfg) is called, for the first time or after the call before it
\* returned (an exception propagates and ends the caller): the clock is read
\* and the layer count computed.  The clock never runs backwards.
Call ==
  /\ pc \in {"idle", "done"}
  /\ calls < MaxCalls
  /\ calls' = calls + 1
  /\ \E t \in Clocks : t >= now /\ now' = t
  /\ g' = <<>> /\ written' = 0
  /\ grid_w' = 0 /\ grid_h' = 0 /\ start_x' = Zero /\ start_y' = Zero
  /\ total' = 0 /\ z_vals' = <<>>
  /\ idx' = 0 /\ row' = 0 /\ col' = 0 /\ ly' = 0
  /\ z_off' = Zero /\ ox' = Zero /\ oy' = Zero
  /\ IF IsZero(cfg.layer_height)
       THEN Raise("ZeroDivisionError") /\ layers' = 0
       ELSE pc' = "header" /\ err' = "none" /\ layers' = layer_count(cfg)
  /\ UNCHANGED <<cfg, file, outputs>>

\* Lines 31-55: the metadata header and the vendor markers start g.
Header ==
  /\ pc = "header"
  /\ g' = preheader(cfg) \o header(cfg, now, layers)
  /\ pc' = "warmup"
  /\ UNCHANGED <<cfg, err, calls, now, layers, gridVars, total, z_vals,
                 loopVars, diskVars>>

\* Faulty variant of WarmUp: the lines built so far are streamed to the file.
WarmUp_streaming ==
  /\ pc = "warmup"
  /\ g' = g \o warmup(cfg)
  /\ file' = g'
  /\ pc' = "grid"
  /\ UNCHANGED <<cfg, err, calls, now, layers, gridVars, total, z_vals,
                 loopVars, written, outputs>>

\* Lines 58-66.
WarmUp ==
  /\ pc = "warmup"
  /\ g' = g \o warmup(cfg)
  /\ pc' = "grid"
  /\ UNCHANGED <<cfg, err, calls, now, layers, gridVars, total, z_vals,
                 loopVars, diskVars>>

\* Width (height) of the grid of n squares: n squares and n - 1 gaps.
grid_extent(n, size, gap) == n * size + (n - 1) * gap

\* Faulty variant of grid_start: the parentheses forgotten, bed - grid / 2.
grid_start_unparenthesised(bed, extent) ==
  RSub(FromInt(bed), RDiv(FromInt(extent), FromInt(2)))

\* start = (bed - grid) / 2, a true division.
grid_start(bed, extent) == RDiv(FromInt(bed - extent), FromInt(2))

\* 4) Grid placement math, lines 69-72.
GridPlacement ==
  /\ pc = "grid"
  /\ grid_w' = grid_extent(cfg.x, cfg.size, cfg.gap)
  /\ grid_h' = grid_extent(cfg.y, cfg.size, cfg.gap)
  /\ start_x' = grid_start(cfg.bed_x, grid_w')
  /\ start_y' = grid_start(cfg.bed_y, grid_h')
  /\ pc' = "offsets"
  /\ UNCHANGED <<cfg, err, calls, now, layers, g, total, z_vals, loopVars,
                 diskVars>>

\* Faulty variant of z_val: the span is divided by total instead of total - 1.
z_val_by_total(i, z_min, z_max, n) ==
  round3(RAdd(z_min, RDiv(RMul(FromInt(i), RSub(z_max, z_min)), FromInt(n))))

\* z_min + i * (z_max - z_min) / (total - 1), rounded to 3 decimals.
z_val(i, z_min, z_max, n) ==
  round3(RAdd(z_min, RDiv(RMul(FromInt(i), RSub(z_max, z_min)), FromInt(n - 1))))

\* Lines 74-76.  range(total) is empty for total <= 0, so the division is
\* evaluated only for total >= 1, and by zero exactly when total = 1.
Offsets ==
  /\ pc = "offsets"
  /\ total' = cfg.x * cfg.y
  /\ IF total' = 1
       THEN Raise("ZeroDivisionError") /\ z_vals' = z_vals
       ELSE /\ z_vals' = [i \in 1..total' |->
                            z_val(i - 1, cfg.z_min, cfg.z_max, total')]
            /\ pc' = "row" /\ err' = err
  /\ UNCHANGED <<cfg, calls, now, layers, g, gridVars, loopVars, diskVars>>

\* Faulty variant of cell_origin: the gap between squares forgotten.
cell_origin_no_gap(start, k, size, gap) == RAdd(start, FromInt(k * size))

\* Origin of the square in column (row) k along one axis.
cell_origin(start, k, size, gap) == RAdd(start, FromInt(k * (size + gap)))

\* Lines 87-88: the comment and the display message that lead a square.
square_lines(i, n, zoff) ==
  << [kind |-> "comment", text |-> "--- Square / Z= ---",
      index |-> i, of |-> n, Z |-> f3(zoff)],
     [kind |-> "M117", Z |-> f2(zoff)] >>

\* Faulty variant of path: the square is left open, the closing corner forgotten.
path_open(x0, y0, size) ==
  LET x1 == RAdd(x0, FromInt(size))
      y1 == RAdd(y0, FromInt(size))
  IN  << <<x0, y0>>, <<x1, y0>>, <<x1, y1>>, <<x0, y1>> >>

\* Lines 94-100: the corners of the closed square, in the order drawn.
path(x0, y0, size) ==
  LET x1 == RAdd(x0, FromInt(size))
      y1 == RAdd(y0, FromInt(size))
  IN  << <<x0, y0>>, <<x1, y0>>, <<x1, y1>>, <<x0, y1>>, <<x0, y0>> >>

\* Faulty variant of layer_z: layers counted from zero, z = ly * layer_height + z_off.
layer_z_from_zero(l, layer_h, zoff) == RAdd(RMul(FromInt(l), layer_h), zoff)

\* z = (ly + 1) * layer_height + z_off
layer_z(l, layer_h, zoff) == RAdd(RMul(FromInt(l + 1), layer_h), zoff)

\* Lines 104-108: the extruding move from corner k - 1 to corner k of p.
extrude_line(c, p, k) ==
  LET dist == hypot(RSub(p[k][1], p[k - 1][1]), RSub(p[k][2], p[k - 1][2]))
      e    == filament_len(dist, c.layer_height, c.line_width, c.mult)
  IN  [kind |-> "G1", X |-> f3(p[k][1]), Y |-> f3(p[k][2]), E |-> f3(e),
       F |-> c.print * 60]

\* Lines 91-109: the lines of layer l of the square at (x0, y0).
layer_lines(c, l, zoff, x0, y0) ==
  LET p == path(x0, y0, c.size)
  IN  << [kind |-> "G1", Z |-> f3(layer_z(l, c.layer_height, zoff)), F |-> 600],
         [kind |-> "G1", X |-> f3(p[1][1]), Y |-> f3(p[1][2]),
          F |-> c.travel * 60] >>
      \o [k \in 1..(Len(p) - 1) |-> extrude_line(c, p, k + 1)]
      \o << [kind |-> "G92", E |-> 0] >>

\* Line 80: for row in range(cfg['y']).
NextRow ==
  /\ pc = "row"
  /\ IF row < cfg.y
       THEN pc' = "col" /\ col' = 0
       ELSE pc' = "end" /\ col' = col
  /\ UNCHANGED <<cfg, err, calls, now, layers, g, gridVars, total, z_vals,
                 idx, row, ly, z_off, ox, oy, diskVars>>

\* Lines 81-88: for col in range(cfg['x']), and the head of the loop body.
NextCol ==
  /\ pc = "col"
  /\ IF col < cfg.x
       THEN /\ z_off' = z_vals[idx + 1]
            /\ idx' = idx + 1
            /\ ox' = cell_origin(start_x, col, cfg.size, cfg.gap)
            /\ oy' = cell_origin(start_y, row, cfg.size, cfg.gap)
            /\ g' = g \o square_lines(idx', total, z_off')
            /\ ly' = 0
            /\ pc' = "layer"
            /\ row' = row
       ELSE /\ row' = row + 1
            /\ pc' = "row"
            /\ UNCHANGED <<z_off, idx, ox, oy, g, ly>>
  /\ UNCHANGED <<cfg, err, calls, now, layers, gridVars, total, z_vals, col,
                 diskVars>>

\* Lines 90-109: for ly in range(layers), one layer of the square.
NextLayer ==
  /\ pc = "layer"
  /\ IF ly < layers
       THEN /\ g' = g \o layer_lines(cfg, ly, z_off, ox, oy)
            /\ ly' = ly + 1
            /\ UNCHANGED <<pc, col>>
       ELSE /\ col' = col + 1
            /\ pc' = "col"
            /\ UNCHANGED <<g, ly>>
  /\ UNCHANGED <<cfg, err, calls, now, layers, gridVars, total, z_vals,
                 idx, row, z_off, ox, oy, diskVars>>

\* Lines 112-123.
EndGcode ==
  /\ pc = "end"
  /\ g' = g \o endgcode
  /\ pc' = "write"
  /\ UNCHANGED <<cfg, err, calls, now, layers, gridVars, total, z_vals,
                 loopVars, diskVars>>

\* Lines 125-127: the whole text is written and build() returns.
WriteText ==
  /\ pc = "write"
  /\ file' = g
  /\ written' = written + 1
  /\ outputs' = Append(outputs, g)
  /\ pc' = "done"
  /\ UNCHANGED <<cfg, err, calls, now, layers, g, gridVars, total, z_vals,
                 loopVars>>

\* Line 126 when the target cannot be opened for writing: write_text raises
\* and the file stays as it was.
WriteFails ==
  /\ pc = "write"
  /\ Raise("OSError")
  /\ UNCHANGED <<cfg, calls, now, layers, g, gridVars, total, z_vals,
                 loopVars, diskVars>>

Next ==
  \/ Call
  \/ Header
  \/ WarmUp
  \/ GridPlacement
  \/ Offsets
  \/ NextRow
  \/ NextCol
  \/ NextLayer
  \/ EndGcode
  \/ WriteText
  \/ WriteFails

Spec == Init /\ [][Next]_vars

(* ------------------------- reading the output -------------------------- *)
\* g holds every line of the output, the end block included.
Complete == pc \in {"write", "done"} \/ (pc = "failed" /\ err = "OSError")

\* The grid placement (the offsets) of the current call has been computed.
Placed == pc \in {"offsets", "row", "col", "layer", "end", "write", "done"}
Scheduled == pc \in {"row", "col", "layer", "end", "write", "done"}

HasWords(l, ws) == ws \subseteq DOMAIN l
IsExtrudingMove(l) == l.kind = "G1" /\ HasWords(l, {"X", "Y", "E"})
IsTravelMove(l) == l.kind = "G1" /\ HasWords(l, {"X", "Y"}) /\ ~HasWords(l, {"E"})
IsZMove(l) == l.kind = "G1" /\ DOMAIN l = {"kind", "Z", "F"}
IsSquareComment(l) == l.kind = "comment" /\ HasWords(l, {"index"})

\* Positions in g of the lines equal to l, and of the lines of a kind.
Where(l) == {i \in DOMAIN g : g[i] = l}
WhereKind(k) == {i \in DOMAIN g : g[i].kind = k}
SetMax(S) == CHOOSE m \in S : \A n \in S : n <= m
SetMin(S) == CHOOSE m \in S : \A n \in S : m <= n

\* Number of lines of the setup (metadata, markers, warm-up) and end blocks.
SetupLen == Len(preheader(cfg)) + Len(header(cfg, now, layers)) + Len(warmup(cfg))
EndLen == Len(endgcode)
\* Positions of the lines between the setup block and the end block.
BodyIdx == (SetupLen + 1)..(Len(g) - EndLen)

\* floor(square_height / layer_height) for a nonzero layer height.
FloorLayers(c) ==
  LET q == RDiv(c.square_height, c.layer_height) IN q[1] \div q[2]

ValidConfig ==
  /\ cfg.x >= 1 /\ cfg.y >= 1 /\ cfg.x * cfg.y >= 2
  /\ ~IsZero(cfg.layer_height)
  /\ FloorLayers(cfg) >= 1

(* ------------------------------- claims -------------------------------- *)

\* C1: for a valid configuration the complete output holds, between the
\* setup block and the end block, exactly columns*rows*layers*4 extruding
\* X/Y moves and exactly columns*rows*layers non-extruding X/Y travel moves,
\* each travel move leading one layer: it follows that layer's Z move and is
\* followed by that layer's four extruding moves.
C1_MoveCounts ==
  (Complete /\ ValidConfig) =>
    LET n  == cfg.x * cfg.y * FloorLayers(cfg)
        ex == {i \in BodyIdx : IsExtrudingMove(g[i])}
        tr == {i \in BodyIdx : IsTravelMove(g[i])}
    IN  /\ Cardinality(ex) = n * 4
        /\ Cardinality(tr) = n
        /\ \A i \in tr :
             /\ IsZMove(g[i - 1])
             /\ \A k \in 1..4 : i + k \in ex
             /\ i + 5 \notin ex
        /\ \A i \in DOMAIN g \ BodyIdx : ~IsExtrudingMove(g[i])

\* A finished run of the largest grid with 5 layers per square.
C1_Witness ==
  /\ pc = "done" /\ ValidConfig
  /\ cfg.x = MaxCols /\ cfg.y = MaxRows /\ FloorLayers(cfg) = 5
  /\ Cardinality({i \in BodyIdx : IsExtrudingMove(g[i])}) = MaxCols * MaxRows * 20

\* C2: with columns*rows >= 2 there is one offset per cell, the offsets are
\* non-decreasing in the row-major index when z_min <= z_max and
\* non-increasing when z_min >= z_max, the first is z_min and the last is
\* z_max (each rounded to 3 decimals), and the square at (row, col) is drawn
\* with the offset of index row*columns + col.
C2_OffsetsMonotone ==
  (Scheduled /\ cfg.x * cfg.y >= 2) =>
    /\ Len(z_vals) = cfg.x * cfg.y
    /\ RLe(cfg.z_min, cfg.z_max) =>
         \A i \in 1..(Len(z_vals) - 1) : RLe(z_vals[i], z_vals[i + 1])
    /\ RLe(cfg.z_max, cfg.z_min) =>
         \A i \in 1..(Len(z_vals) - 1) : RLe(z_vals[i + 1], z_vals[i])
    /\ z_vals[1] = round3(cfg.z_min)
    /\ z_vals[Len(z_vals)] = round3(cfg.z_max)
    /\ pc = "layer" => z_off = z_vals[row * cfg.x + col + 1]

\* The last square of the largest grid is being drawn, with offsets that
\* are not all equal and needed rounding.
C2_Witness ==
  /\ pc = "layer" /\ cfg.x = MaxCols /\ cfg.y = MaxRows
  /\ row = MaxRows - 1 /\ col = MaxCols - 1
  /\ z_off = round3(cfg.z_max) /\ z_vals[1] # z_vals[2]
  /\ RLt(cfg.z_max, cfg.z_min)

\* C7: the grid start centers the grid on the bed on both axes:
\* start_x = bed_x - (start_x + grid_w) and start_y = bed_y - (start_y +
\* grid_h), with grid_w = columns*size + (columns-1)*gap and grid_h =
\* rows*size + (rows-1)*gap.
C7_GridCentered ==
  Placed =>
    LET w == cfg.x * cfg.size + (cfg.x - 1) * cfg.gap
        h == cfg.y * cfg.size + (cfg.y - 1) * cfg.gap
    IN  /\ grid_w = w /\ grid_h = h
        /\ start_x = RSub(FromInt(cfg.bed_x), RAdd(start_x, FromInt(w)))
        /\ start_y = RSub(FromInt(cfg.bed_y), RAdd(start_y, FromInt(h)))

\* A placed grid whose start is not a whole number of millimetres in X and
\* whose margins differ between the axes.
C7_Witness ==
  /\ pc = "row" /\ cfg.x = 2 /\ cfg.y = 1 /\ cfg.gap = 5
  /\ start_x = <<205, 2>> /\ start_y = <<115, 1>>

\* Positions of the square comments and of the travel moves of the body.
SquareIdx == {j \in BodyIdx : IsSquareComment(g[j])}
TravelIdx == {j \in BodyIdx : IsTravelMove(g[j])}

\* The lines of square k: from its comment up to the next square's comment
\* or the end of the body.
SquareAt(k) == CHOOSE i \in SquareIdx : g[i].index = k
SquareLines(k) ==
  SquareAt(k)..(IF k = cfg.x * cfg.y THEN Len(g) - EndLen ELSE SquareAt(k + 1) - 1)

\* For each square k, the points (in thousandths, as printed) that its
\* travel moves go to: the origin its toolpath uses.
Origins ==
  [k \in 1..(cfg.x * cfg.y) |->
     { <<g[j].X, g[j].Y>> : j \in {i \in SquareLines(k) : IsTravelMove(g[i])} }]

\* The open squares of side s at origins p and q have a point in common.
Overlap(p, q, s) ==
  /\ p[1] < q[1] + s /\ q[1] < p[1] + s
  /\ p[2] < q[2] + s /\ q[2] < p[2] + s

\* C8: the origin used for the toolpath of the cell at (row, col) is
\* (start_x + col*(size+gap), start_y + row*(size+gap)); in the output,
\* horizontally adjacent cells' origins differ by size+gap in x and 0 in y,
\* vertically adjacent ones by size+gap in y and 0 in x, and with gap >= 0
\* no two cells' squares overlap.
C8_CellOrigins ==
  LET pitch == cfg.size + cfg.gap
  IN
  /\ pc = "layer" =>
       /\ 0 <= row /\ row < cfg.y /\ 0 <= col /\ col < cfg.x
       /\ ox = RAdd(start_x, FromInt(col * pitch))
       /\ oy = RAdd(start_y, FromInt(row * pitch))
  /\ (Complete /\ ValidConfig) =>
       \A o \in {Origins} :
       \A at \in {[r \in 0..(cfg.y - 1), c \in 0..(cfg.x - 1) |->
                     CHOOSE q \in o[r * cfg.x + c + 1] : TRUE]} :
         /\ \A r \in 0..(cfg.y - 1), c \in 0..(cfg.x - 1) :
              /\ o[r * cfg.x + c + 1] =
                   {<<f3(start_x) + 1000 * c * pitch,
                      f3(start_y) + 1000 * r * pitch>>}
              /\ c + 1 < cfg.x =>
                   /\ at[r, c + 1][1] - at[r, c][1] = 1000 * pitch
                   /\ at[r, c + 1][2] = at[r, c][2]
              /\ r + 1 < cfg.y =>
                   /\ at[r + 1, c][2] - at[r, c][2] = 1000 * pitch
                   /\ at[r + 1, c][1] = at[r, c][1]
         /\ cfg.gap >= 0 =>
              \A r1, r2 \in 0..(cfg.y - 1), c1, c2 \in 0..(cfg.x - 1) :
                <<r1, c1>> # <<r2, c2>> =>
                  ~Overlap(at[r1, c1], at[r2, c2], 1000 * cfg.size)

\* A finished grid with two rows and the largest number of columns, squares
\* 5 mm apart, whose second row starts one pitch above the first.
C8_Witness ==
  /\ pc = "done" /\ ValidConfig /\ cfg.x = MaxCols /\ cfg.y = 2 /\ cfg.gap = 5
  /\ Origins[1] = {<<f3(start_x), f3(start_y)>>}
  /\ Origins[cfg.x + 1] = {<<f3(start_x), f3(start_y) + 25000>>}

\* C10: the lines of layer ly of a cell with origin (ox, oy) and offset zoff
\* are, in order, one Z move to (ly+1)*layer_height + zoff at F600, one
\* non-extruding move to (ox, oy) at travel speed, and exactly four
\* extruding moves at print speed to (ox+size, oy), (ox+size, oy+size),
\* (ox, oy+size), (ox, oy), ending where the path started; within a cell the
\* Z of each layer is the Z of the layer before plus layer_height, and
\* higher.
C10_LayerLines ==
  (pc = "layer" /\ ly >= 1) =>
    LET n     == Len(g)
        l     == ly - 1
        pitch == cfg.size + cfg.gap
        zoff  == z_vals[row * cfg.x + col + 1]
        x0    == RAdd(start_x, FromInt(col * pitch))
        y0    == RAdd(start_y, FromInt(row * pitch))
        x1    == RAdd(x0, FromInt(cfg.size))
        y1    == RAdd(y0, FromInt(cfg.size))
        to(i, x, y) ==
          /\ DOMAIN g[i] = {"kind", "X", "Y", "E", "F"}
          /\ g[i].kind = "G1" /\ g[i].F = cfg.print * 60
          /\ g[i].X = f3(x) /\ g[i].Y = f3(y)
    IN  /\ g[n - 6] = [kind |-> "G1", F |-> 600,
                       Z |-> f3(RAdd(RMul(FromInt(l + 1), cfg.layer_height), zoff))]
        /\ g[n - 5] = [kind |-> "G1", X |-> f3(x0), Y |-> f3(y0),
                       F |-> cfg.travel * 60]
        /\ to(n - 4, x1, y0)
        /\ to(n - 3, x1, y1)
        /\ to(n - 2, x0, y1)
        /\ to(n - 1, x0, y0)
        /\ ~IsExtrudingMove(g[n]) /\ ~IsExtrudingMove(g[n - 7])
        /\ g[n - 1].X = g[n - 5].X /\ g[n - 1].Y = g[n - 5].Y
        /\ l >= 1 =>
             /\ IsZMove(g[n - 13])
             /\ g[n - 6].Z = g[n - 13].Z + f3(cfg.layer_height)
             /\ g[n - 6].Z > g[n - 13].Z

\* The fifth layer of the second square of a grid has just been emitted, at
\* a height that is not a whole multiple of the layer height.
C10_Witness ==
  /\ pc = "layer" /\ ly = 5 /\ idx = 2 /\ col = 1
  /\ IsZero(cfg.z_max) /\ cfg.x = 2 /\ cfg.y = 2
  /\ g[Len(g) - 6].Z = 1000 + f3(z_vals[2])
  /\ g[Len(g) - 6].Z # 1000

\* C6: the blocks of the output come in a fixed order with no interleaving:
\* the metadata comments, the vendor header markers, EXECUTABLE_BLOCK_START
\* and the machine setup (modes, bed and nozzle heat-and-wait, homing, Z
\* lift, prime and G92 E0), the squares 1, 2, ..., columns*rows in row-major
\* order, each one's lines contiguous after its index/offset comment, and
\* the shutdown block with EXECUTABLE_BLOCK_END as the last line; every
\* extruding toolpath move comes after the heat-waits and the homing and
\* before the heaters go off and the motors are disabled.
C6_BlockOrder ==
  Complete =>
    LET n      == Len(g)
        one(S) == Cardinality(S) = 1
        pos(S) == CHOOSE i \in S : TRUE
        hs     == Where(Comment(" HEADER_BLOCK_START"))
        he     == Where(Comment(" HEADER_BLOCK_END"))
        xs     == Where(Comment(" EXECUTABLE_BLOCK_START"))
        xe     == Where(Comment(" EXECUTABLE_BLOCK_END"))
        modes  == WhereKind("G90") \cup WhereKind("M83")
        bedw   == WhereKind("M190")
        nozw   == WhereKind("M109")
        home   == WhereKind("G28")
        lift   == {i \in DOMAIN g : IsZMove(g[i]) /\ i > pos(home)}
        prime  == {i \in DOMAIN g : g[i].kind = "G1" /\ DOMAIN g[i] = {"kind", "E", "F"}
                                    /\ g[i].E > 0}
        reset  == WhereKind("G92")
        off    == WhereKind("M140") \cup WhereKind("M104")
        motors == WhereKind("M84")
        sq     == {i \in DOMAIN g : IsSquareComment(g[i])}
        moves  == {i \in DOMAIN g : IsExtrudingMove(g[i])}
        cells  == IF cfg.x > 0 /\ cfg.y > 0 THEN cfg.x * cfg.y ELSE 0
        pitch  == cfg.size + cfg.gap
        \* the square that position i lies in: the squares begun before it
        owner(i) == Cardinality({j \in sq : j < i})
        xs_of(k) == LET x0 == f3(start_x) + 1000 * ((k - 1) % cfg.x) * pitch
                    IN  {x0, x0 + 1000 * cfg.size}
        ys_of(k) == LET y0 == f3(start_y) + 1000 * ((k - 1) \div cfg.x) * pitch
                    IN  {y0, y0 + 1000 * cfg.size}
    IN  /\ one(hs) /\ one(he) /\ one(xs) /\ one(xe)
        /\ one(bedw) /\ one(nozw) /\ one(home) /\ one(prime) /\ one(motors)
        \* metadata comments, then the header markers, then the setup
        /\ pos(hs) > 1
        /\ \A i \in 1..pos(he) : g[i].kind = "comment"
        /\ pos(hs) < pos(he) /\ pos(he) < pos(xs)
        /\ \A i \in modes : pos(xs) < i /\ i < pos(bedw)
        /\ modes # {}
        /\ pos(xs) < pos(bedw) /\ pos(bedw) < pos(nozw) /\ pos(nozw) < pos(home)
        /\ pos(home) < SetMin(lift) /\ SetMin(lift) < pos(prime)
        /\ SetMin(reset) = pos(prime) + 1
        /\ SetMin(reset) = SetupLen
        \* the squares, numbered 1..cells in the order they appear
        /\ sq \subseteq BodyIdx
        /\ Cardinality(sq) = cells
        /\ \A i \in sq : g[i].index = owner(i) + 1 /\ g[i].of = total
                         /\ g[i].Z = f3(z_vals[g[i].index])
        /\ cells > 0 => SetupLen + 1 \in sq
        \* every toolpath move lies in a square and on that square's outline,
        \* squares taken in row-major order
        /\ moves \cup TravelIdx \subseteq BodyIdx
        /\ \A i \in moves \cup TravelIdx :
             /\ owner(i) >= 1
             /\ g[i].X \in xs_of(owner(i))
             /\ g[i].Y \in ys_of(owner(i))
        \* the shutdown block
        /\ g[n - EndLen + 1] = [kind |-> "G1", Z |-> 20000, F |-> 900]
        /\ \A i \in off \cup motors : i > n - EndLen
        /\ \A i \in off : i < pos(motors)
        /\ Cardinality(off) = 2
        /\ xe = {n}
        /\ \A i \in moves :
             /\ pos(bedw) < i /\ pos(nozw) < i /\ pos(home) < i
             /\ \A j \in off \cup motors : i < j

\* The complete output of the largest grid: the last square's comment is in
\* the body and extruding moves follow it.
C6_Witness ==
  /\ pc = "write" /\ cfg.x = MaxCols /\ cfg.y = MaxRows /\ layers = 2
  /\ \E i \in SquareIdx :
       /\ g[i].index = MaxCols * MaxRows
       /\ IsExtrudingMove(g[i + 4])
  /\ g[Len(g)] = Comment(" EXECUTABLE_BLOCK_END")

LastOutput == IF outputs = <<>> THEN NoFile ELSE outputs[Len(outputs)]

\* C9: the output file is written at most once per call, as the last step,
\* with the complete line sequence (end block included); a call that has
\* not returned, or that failed, has written nothing, so the file is absent
\* or still holds the whole output of the last call that returned.
C9_AtomicWrite ==
  /\ written \in {0, 1}
  /\ written = 1 <=> pc = "done"
  /\ pc = "done" =>
       /\ file = g
       /\ SubSeq(g, Len(g) - EndLen + 1, Len(g)) = endgcode
       /\ SubSeq(g, 1, Len(preheader(cfg))) = preheader(cfg)
  /\ pc = "failed" => written = 0
  /\ written = 0 => file = LastOutput
  /\ (calls = 1 /\ pc = "failed") => file = NoFile
  /\ file # NoFile => file[Len(file)] = Comment(" EXECUTABLE_BLOCK_END")

\* A first call of a single-cell grid failed on the division by zero after
\* lines were built, and no file exists.
C9_Witness ==
  /\ calls = 1 /\ pc = "failed" /\ err = "ZeroDivisionError"
  /\ total = 1 /\ Len(g) > 0
  /\ file = NoFile /\ written = 0

\* C3: a single-cell grid (columns*rows = 1) ends in a Configuration Error
\* and never in a division by zero in the offset interpolation.
C3_SingleCellRejected ==
  (cfg.x * cfg.y = 1 /\ total = 1 /\ pc = "failed") => err = "ConfigurationError"

\* C4: with a non-positive grid dimension, or a layer height that yields
\* zero layers, the call fails fast: it does not run to completion with an
\* output that holds no squares or no toolpath moves.
C4_DegenerateRejected ==
  LET degenerate ==
        /\ ~IsZero(cfg.layer_height)
        /\ (cfg.x <= 0 \/ cfg.y <= 0 \/ FloorLayers(cfg) = 0)
  IN  degenerate => pc \notin {"write", "done"}

\* C5: two calls with the identical configuration write identical output,
\* whatever the clock read at the start of each call.
C5_Idempotent ==
  \A i, j \in DOMAIN outputs : outputs[i] = outputs[j]

=============================================================================
